---- MODULE Spec2Model ----
(***************************************************************************)
(* A model of src/directive.ts: DirectiveManager, registerDirective and    *)
(* extractAttributesFromSelector, run against a small DOM whose            *)
(* MutationObserver follows the DOM standard (records queued at mutation   *)
(* time, delivered later; transient registered observers on removed        *)
(* subtrees; disconnect() drops the pending records).                      *)
(***************************************************************************)
EXTENDS Integers, Sequences, FiniteSets, TLC

\* ------------------------------------------------------------------ bounds
\* DOM mutations the page performs.
MaxMut == 2
\* Direct calls of manager methods after registration.
MaxApi == 1
\* Selector strings are built from at most MaxParts pieces.
MaxParts == 3

\* ------------------------------------------------------------- the document
Nodes == {"r", "x", "y"}
NoNode == "none"
Managers == {"m1", "m2"}
\* The arguments the operations are called with: the root handed to
\* registerDirective and disconnect, the roots of explicit attachTo and
\* observe calls, and the elements whose attributes the page changes.
RegRoots == {"r"}
DisconnectRoots == {"r"}
AttachRoots == {"r", "x"}
ObserveRoots == {"r", "y"}
AttrNodes == {"x", "y"}

\* Strings are sequences of characters, so that the selector scan below is
\* the scan the code performs.
AttrOpen == <<"o", "p", "e", "n">>
AttrClass == <<"c", "l", "a", "s", "s">>
Attrs == {AttrOpen, AttrClass}

SelOpen == <<"[">> \o AttrOpen \o <<"]">>
SelCard == <<".", "c", "a", "r", "d">>
SelCardOpen == SelCard \o SelOpen
Selectors == {SelOpen, SelCard, SelCardOpen}

VARIABLES
  children,    \* node -> sequence of its child elements, in document order
  attrs,       \* node -> set of attribute names present on it
  props,       \* node -> symbol -> instance stored under that symbol (0: none)
  mgr,         \* manager -> [symbol, selector, attrsToObserve] (symbol 0: not constructed)
  registered,  \* manager -> nodes its observer is registered on (observe)
  transient,   \* manager -> transient registered observers [node, src, direct]
  queue,       \* manager -> the observer's record queue
  nextInst,    \* identity of the next instance a constructor call creates
  insts,       \* history: per instance created, its element, its manager's
               \* symbol, the onChange and onDetach calls it received, and
               \* the observed-subtree attribute changes of its element that
               \* left the element matching while it was stored
  cfg,         \* the run's fixed inputs: the managers the page creates, the
               \* selectors it registers, whether the directive's callbacks may
               \* throw, the nodes the page moves or changes, the
               \* attributes it sets or removes, the roots it passes to
               \* the managers' methods
  lastOp,      \* the operation performed by the last step
  lastCalls,   \* the directive calls the last step made, in order
  nMut,        \* DOM mutations performed so far
  nApi         \* direct manager method calls performed so far

vars == <<children, attrs, props, mgr, registered, transient, queue, nextInst,
          insts, cfg, lastOp, lastCalls, nMut, nApi>>

\* ----------------------------------------------------------------- helpers
Range(s) == {s[i] : i \in 1..Len(s)}

RECURSIVE Concat(_)
Concat(ss) == IF ss = <<>> THEN <<>> ELSE Head(ss) \o Concat(Tail(ss))

Without(s, n) == SelectSeq(s, LAMBDA e : e # n)

\* ------------------------------------------------------------ tree structure
ParentIn(ch, n) ==
  IF \E p \in Nodes : n \in Range(ch[p])
  THEN CHOOSE p \in Nodes : n \in Range(ch[p])
  ELSE NoNode

RECURSIVE InclAncestorsIn(_, _)
InclAncestorsIn(ch, n) ==
  IF n = NoNode THEN {} ELSE {n} \cup InclAncestorsIn(ch, ParentIn(ch, n))

\* The subtree of n in document (pre-)order, n first.
RECURSIVE DocOrderIn(_, _)
DocOrderIn(ch, n) ==
  <<n>> \o Concat([i \in 1..Len(ch[n]) |-> DocOrderIn(ch, ch[n][i])])

Parent(n) == ParentIn(children, n)
InclAncestors(n) == InclAncestorsIn(children, n)
DocOrder(n) == DocOrderIn(children, n)
InclDescendants(n) == Range(DocOrder(n))
Descendants(n) == InclDescendants(n) \ {n}

\* ------------------------------------------------ selector matching (host)
\* Element.matches for the selectors of the model: [open] asks for the open
\* attribute, .card for the class attribute (whose only value is "card").
matchesIn(at, el, selector) ==
  CASE selector = SelOpen -> AttrOpen \in at[el]
    [] selector = SelCard -> AttrClass \in at[el]
    [] selector = SelCardOpen -> AttrClass \in at[el] /\ AttrOpen \in at[el]
    [] OTHER -> FALSE

matches(el, selector) == matchesIn(attrs, el, selector)

\* Variant of querySelectorAll that lists the innermost elements first
\* (reverse document order).
querySelectorAllInnermostFirst(root, selector) ==
  LET found == SelectSeq(Tail(DocOrder(root)), LAMBDA e : matches(e, selector))
  IN [k \in 1..Len(found) |-> found[Len(found) + 1 - k]]

\* root.querySelectorAll(selector): the matching descendants of root (root
\* itself excluded), in document order.
querySelectorAll(root, selector) ==
  SelectSeq(Tail(DocOrder(root)), LAMBDA e : matches(e, selector))

\* ------------------------------------------- extractAttributesFromSelector
Letters ==
  {"a", "b", "c", "d", "e", "f", "g", "h", "i", "j", "k", "l", "m", "n", "o",
   "p", "q", "r", "s", "t", "u", "v", "w", "x", "y", "z", "A", "B", "Z"}
Digits == {"0", "1", "9"}
\* [a-zA-Z_:]
NameStart == Letters \cup {"_", ":"}
\* [-a-zA-Z0-9_:.]
NameChar == NameStart \cup Digits \cup {"-", "."}
\* \s
Whitespace == {" ", "\t", "\n"}

\* The first index >= i of s that holds no character of class.
RECURSIVE SkipWhile(_, _, _)
SkipWhile(s, i, class) ==
  IF i <= Len(s) /\ s[i] \in class THEN SkipWhile(s, i + 1, class) ELSE i

\* The exec loop of /\[\s*([a-zA-Z_:][-a-zA-Z0-9_:.]*)/g from index i, the
\* captured names added to acc as a Set adds them (first occurrence kept).
RECURSIVE ExecLoop(_, _, _)
ExecLoop(s, i, acc) ==
  IF i > Len(s) THEN acc
  ELSE IF s[i] # "[" THEN ExecLoop(s, i + 1, acc)
  ELSE LET j == SkipWhile(s, i + 1, Whitespace) IN
       IF j <= Len(s) /\ s[j] \in NameStart
       THEN LET k == SkipWhile(s, j + 1, NameChar)
                name == SubSeq(s, j, k - 1)
            IN ExecLoop(s, k, IF name \in Range(acc) THEN acc ELSE Append(acc, name))
       ELSE ExecLoop(s, i + 1, acc)

extractAttributesFromSelector(selector) == ExecLoop(selector, 1, <<>>)

\* ------------------------------------------------------ DirectiveManager
\* Variant of Symbol: a registry key, equal for every manager.
SymbolShared(description, minted) == 1

\* Symbol(description): a symbol no earlier call returned; minted is the
\* number of symbols minted so far.
Symbol(description, minted) == minted + 1

Minted == Cardinality({m \in Managers : mgr[m].symbol # 0})

NotConstructed == [symbol |-> 0, selector |-> <<>>, attrsToObserve |-> <<>>]

\* The page registers its managers first: what it did to the document before
\* is part of the initial document.
AllRegistered == \A m \in cfg.managers : mgr[m].symbol # 0

\* new DirectiveManager(directive, selector)
DirectiveManager(selector, minted) ==
  [symbol |-> Symbol("D", minted),
   selector |-> selector,
   attrsToObserve |-> extractAttributesFromSelector(selector)]

Symbols == 1..Cardinality(Managers)

\* A directive call: constructor, onChange or onDetach, on the instance inst
\* of element el, made by the manager that owns symbol sym.
Call(cb, sym, el, inst, threw) ==
  [cb |-> cb, sym |-> sym, el |-> el, inst |-> inst, threw |-> threw]

\* The part of the state that a manager method reads and writes, threaded
\* through its statements: the element slots, the instance counter, the
\* calls made, whether an exception is propagating, and the value returned
\* by the last #attach.
Store(p, ni) == [props |-> p, nextInst |-> ni, calls |-> <<>>, thrown |-> FALSE, ret |-> FALSE]

\* Variant of #attach without the already-attached guard.
attachUnguarded(st, sym, element) ==
  IF st.thrown THEN st
  ELSE [st EXCEPT !.props[element][sym] = st.nextInst,
                  !.nextInst = st.nextInst + 1,
                  !.calls = Append(st.calls, Call("constructor", sym, element, st.nextInst, FALSE)),
                  !.ret = TRUE]

\* #attach(element)
attach(st, sym, element) ==
  IF st.thrown THEN st
  ELSE IF st.props[element][sym] # 0 THEN [st EXCEPT !.ret = FALSE]
  ELSE [st EXCEPT !.props[element][sym] = st.nextInst,
                  !.nextInst = st.nextInst + 1,
                  !.calls = Append(st.calls, Call("constructor", sym, element, st.nextInst, FALSE)),
                  !.ret = TRUE]

\* Variant of #detach that deletes the slot before it reads the instance
\* from it: the read of onDetach on undefined throws a TypeError and no
\* callback is invoked.
detachEraseFirst(st, sym, el, bad) ==
  IF st.thrown THEN st
  ELSE IF st.props[el][sym] = 0 THEN st
  ELSE [st EXCEPT !.props[el][sym] = 0, !.thrown = TRUE]

\* Variant of #detach that invokes onDetach and keeps the slot.
detachKeepSlot(st, sym, el, bad) ==
  IF st.thrown THEN st
  ELSE IF st.props[el][sym] = 0 THEN st
  ELSE [st EXCEPT !.calls = Append(st.calls, Call("onDetach", sym, el, st.props[el][sym], el \in bad)),
                  !.thrown = el \in bad]

\* #detach(el); bad: the elements whose instance's callbacks throw.
detach(st, sym, el, bad) ==
  IF st.thrown THEN st
  ELSE IF st.props[el][sym] = 0 THEN st
  ELSE IF el \in bad
       THEN [st EXCEPT !.calls = Append(st.calls, Call("onDetach", sym, el, st.props[el][sym], TRUE)),
                       !.thrown = TRUE]
       ELSE [st EXCEPT !.calls = Append(st.calls, Call("onDetach", sym, el, st.props[el][sym], FALSE)),
                       !.props[el][sym] = 0]

\* Variant of update that constructs anew over an instance already stored.
updateReconstruct(st, sym, el, bad) ==
  IF st.thrown THEN st
  ELSE [st EXCEPT !.props[el][sym] = st.nextInst,
                  !.nextInst = st.nextInst + 1,
                  !.calls = Append(st.calls, Call("constructor", sym, el, st.nextInst, FALSE)),
                  !.ret = TRUE]

\* update(el, mutation)
update(st, sym, el, bad) ==
  IF st.thrown THEN st
  ELSE LET a == attach(st, sym, el) IN
       IF a.ret THEN a
       ELSE [a EXCEPT !.calls = Append(a.calls, Call("onChange", sym, el, a.props[el][sym], el \in bad)),
                      !.thrown = el \in bad]

RECURSIVE attachAll(_, _, _)
attachAll(st, sym, els) ==
  IF els = <<>> THEN st ELSE attachAll(attach(st, sym, Head(els)), sym, Tail(els))

RECURSIVE detachAll(_, _, _, _)
detachAll(st, sym, els, bad) ==
  IF els = <<>> THEN st ELSE detachAll(detach(st, sym, Head(els), bad), sym, Tail(els), bad)

\* Variant of attachTo that runs the subtree query only.
attachToDescendantsOnly(st, m, root) ==
  attachAll(st, m.symbol, querySelectorAll(root, m.selector))

\* attachTo(root)
attachTo(st, m, root) ==
  LET first == IF matches(root, m.selector) THEN attach(st, m.symbol, root) ELSE st
  IN attachAll(first, m.symbol, querySelectorAll(root, m.selector))

\* Variant of detachFrom that tears the root down before its descendants.
detachFromRootFirst(st, m, root, bad) ==
  LET first == IF matches(root, m.selector) THEN detach(st, m.symbol, root, bad) ELSE st
  IN detachAll(first, m.symbol, querySelectorAll(root, m.selector), bad)

\* detachFrom(root)
detachFrom(st, m, root, bad) ==
  LET rest == detachAll(st, m.symbol, querySelectorAll(root, m.selector), bad)
  IN IF matches(root, m.selector) THEN detach(rest, m.symbol, root, bad) ELSE rest

RECURSIVE attachToEach(_, _, _)
attachToEach(st, m, nodes) ==
  IF nodes = <<>> THEN st ELSE attachToEach(attachTo(st, m, Head(nodes)), m, Tail(nodes))

RECURSIVE detachFromEach(_, _, _, _)
detachFromEach(st, m, nodes, bad) ==
  IF nodes = <<>> THEN st
  ELSE detachFromEach(detachFrom(st, m, Head(nodes), bad), m, Tail(nodes), bad)

\* Variant of the loop body that decides an attributes record by whether the
\* target matched when the record was queued.
observerRecordAsQueued(st, m, rec, bad) ==
  IF st.thrown THEN st
  ELSE IF rec.type = "childList"
       THEN detachFromEach(attachToEach(st, m, rec.addedNodes), m, rec.removedNodes, bad)
       ELSE IF rec.matched
            THEN update(st, m.symbol, rec.target, bad)
            ELSE detach(st, m.symbol, rec.target, bad)

\* One iteration of the observer callback's loop, for the record rec.
observerRecord(st, m, rec, bad) ==
  IF st.thrown THEN st
  ELSE IF rec.type = "childList"
       THEN detachFromEach(attachToEach(st, m, rec.addedNodes), m, rec.removedNodes, bad)
       ELSE IF matches(rec.target, m.selector)
            THEN update(st, m.symbol, rec.target, bad)
            ELSE detach(st, m.symbol, rec.target, bad)

\* Variant of the observer callback that coalesces: an attributes record is
\* skipped when a later record of the batch has the same target.
RECURSIVE observerCoalescing(_, _, _, _)
observerCoalescing(st, m, mutations, bad) ==
  IF mutations = <<>> THEN st
  ELSE LET rec == Head(mutations)
           rest == Tail(mutations)
           again == \E k \in 1..Len(rest) :
                      rest[k].type = "attributes" /\ rest[k].target = rec.target
       IN IF rec.type = "attributes" /\ again
          THEN observerCoalescing(st, m, rest, bad)
          ELSE observerCoalescing(observerRecord(st, m, rec, bad), m, rest, bad)

\* The observer callback: new MutationObserver((mutations) => ...)
RECURSIVE observer(_, _, _, _)
observer(st, m, mutations, bad) ==
  IF mutations = <<>> THEN st
  ELSE observer(observerRecord(st, m, Head(mutations), bad), m, Tail(mutations), bad)

\* getDir(element)
getDir(m, element) == props[element][mgr[m].symbol]

\* ------------------------------------------------- MutationObserver (host)
\* The attributeFilter of observe(): the watch-list, or none when it is empty.
Observes(m, name) ==
  mgr[m].attrsToObserve = <<>> \/ name \in Range(mgr[m].attrsToObserve)

\* Whether m's observer is interested in a mutation whose target is target:
\* one of target's inclusive ancestors carries a registered (or transient)
\* observer of m; every registration has subtree: true. ch is the tree.
\* A transient registered observer lives on node; its source is the
\* registered observer on src, which is a registration made by observe()
\* (direct) or itself a transient one.
Transient(node, src, direct) == [node |-> node, src |-> src, direct |-> direct]

InterestedIn(ch, reg, tr, m, target) ==
  \E a \in InclAncestorsIn(ch, target) :
    a \in reg[m] \/ \E t \in tr[m] : t.node = a

ChildListRecord(target, added, removed) ==
  [type |-> "childList", target |-> target, addedNodes |-> added,
   removedNodes |-> removed, attributeName |-> <<>>, matched |-> FALSE]

\* matched is a history annotation (whether the target matched the manager's
\* selector right after the change); no code reads it.
AttributesRecord(target, name, matched) ==
  [type |-> "attributes", target |-> target, addedNodes |-> <<>>,
   removedNodes |-> <<>>, attributeName |-> name, matched |-> matched]

\* --------------------------------------------------------------- the state
\* The operation a step performs: its name, the manager and the root (or
\* node) it is called on, for a delivery the records handed to the callback,
\* for an attribute change the attribute's name.
Op(op, m, root, mutations, name) ==
  [op |-> op, m |-> m, root |-> root, mutations |-> mutations, name |-> name]

Document(ch) ==
  /\ children = ch
  /\ attrs = [n \in Nodes |-> IF n = "y" THEN {AttrOpen} ELSE {AttrOpen, AttrClass}]
  /\ props = [n \in Nodes |-> [s \in Symbols |-> 0]]
  /\ mgr = [m \in Managers |-> NotConstructed]
  /\ registered = [m \in Managers |-> {}]
  /\ transient = [m \in Managers |-> {}]
  /\ queue = [m \in Managers |-> <<>>]
  /\ nextInst = 1
  /\ insts = <<>>
  /\ lastOp = Op("init", "none", NoNode, <<>>, <<>>)
  /\ lastCalls = <<>>
  /\ nMut = 0
  /\ nApi = 0

\* r > x > y, or r > x with y outside the document.
Chain == [n \in Nodes |-> CASE n = "r" -> <<"x">> [] n = "x" -> <<"y">> [] OTHER -> <<>>]
Apart == [n \in Nodes |-> CASE n = "r" -> <<"x">> [] OTHER -> <<>>]

Config(managers, selectors, mayThrow, mutable, names, roots) ==
  [managers |-> managers, selectors |-> selectors, faulty |-> mayThrow,
   mutable |-> mutable, attrs |-> names, roots |-> roots]

\* One manager, registered with [open]; the directive's callbacks return;
\* the page moves x and y and sets or removes their open attribute.
Init ==
  /\ cfg = Config({"m1"}, {SelOpen}, FALSE, {"x", "y"}, {AttrOpen}, Nodes)
  /\ \E ch \in {Chain, Apart} : Document(ch)

\* The tree, the transient observers and the record queues, as one value
\* that the steps of a DOM mutation thread through.
Dom == [children |-> children, transient |-> transient, queue |-> queue]

Enqueue(d, interested, rec) ==
  [m \in Managers |-> IF m \in interested THEN Append(d.queue[m], rec) ELSE d.queue[m]]

\* The DOM's "remove" of n from its parent: every observer registered with
\* subtree on an inclusive ancestor of the parent gets a transient
\* registered observer on n, and (unless suppressed) a childList record.
domRemove(d, n, suppress) ==
  LET p == ParentIn(d.children, n)
      anc == InclAncestorsIn(d.children, p)
      interested == {m \in Managers : InterestedIn(d.children, registered, d.transient, m, p)}
      added(m) == {Transient(n, a, TRUE) : a \in anc \cap registered[m]}
                    \cup {Transient(n, t.node, FALSE) : t \in {u \in d.transient[m] : u.node \in anc}}
  IN [children |-> [d.children EXCEPT ![p] = Without(@, n)],
      transient |-> [m \in Managers |-> d.transient[m] \cup added(m)],
      queue |-> IF suppress THEN d.queue
                ELSE Enqueue(d, interested, ChildListRecord(p, <<>>, <<n>>))]

InsertBefore(s, n, ref) ==
  IF ref \in Range(s)
  THEN LET i == CHOOSE k \in 1..Len(s) : s[k] = ref
       IN SubSeq(s, 1, i - 1) \o <<n>> \o SubSeq(s, i, Len(s))
  ELSE Append(s, n)

\* The DOM's "insert" of the parentless n into p before ref, with the
\* childList record the operation queues (removed: the nodes it replaced).
domInsert(d, p, n, ref, removed) ==
  LET interested == {m \in Managers : InterestedIn(d.children, registered, d.transient, m, p)}
  IN [children |-> [d.children EXCEPT ![p] = InsertBefore(@, n, ref)],
      transient |-> d.transient,
      queue |-> Enqueue(d, interested, ChildListRecord(p, <<n>>, removed))]

NextSibling(ch, n) ==
  LET p == ParentIn(ch, n)
      i == CHOOSE k \in 1..Len(ch[p]) : ch[p][k] = n
  IN IF i < Len(ch[p]) THEN ch[p][i + 1] ELSE NoNode

\* ------------------------------------------------- the page mutates the DOM
\* p.appendChild(n)
AppendChild(p, n) ==
  /\ nMut < MaxMut
  /\ AllRegistered
  /\ n \notin InclAncestors(p)
  /\ LET d1 == IF Parent(n) # NoNode THEN domRemove(Dom, n, FALSE) ELSE Dom
         d2 == domInsert(d1, p, n, NoNode, <<>>)
     IN /\ children' = d2.children
        /\ transient' = d2.transient
        /\ queue' = d2.queue
  /\ lastOp' = Op("appendChild", "none", n, <<>>, <<>>)
  /\ lastCalls' = <<>>
  /\ nMut' = nMut + 1
  /\ UNCHANGED <<attrs, props, mgr, registered, nextInst, insts, cfg, nApi>>

\* n.remove()
RemoveChild(n) ==
  /\ nMut < MaxMut
  /\ AllRegistered
  /\ Parent(n) # NoNode
  /\ LET d1 == domRemove(Dom, n, FALSE)
     IN /\ children' = d1.children
        /\ transient' = d1.transient
        /\ queue' = d1.queue
  /\ lastOp' = Op("removeChild", "none", n, <<>>, <<>>)
  /\ lastCalls' = <<>>
  /\ nMut' = nMut + 1
  /\ UNCHANGED <<attrs, props, mgr, registered, nextInst, insts, cfg, nApi>>

\* old.replaceWith(new): one childList record with an added and a removed node.
ReplaceChild(new, old) ==
  /\ nMut < MaxMut
  /\ AllRegistered
  /\ new # old
  /\ Parent(old) # NoNode
  /\ new \notin InclAncestors(Parent(old))
  /\ LET p == Parent(old)
         next == NextSibling(children, old)
         ref == IF next = new THEN NextSibling(children, new) ELSE next
         d1 == domRemove(Dom, old, TRUE)
         d2 == IF ParentIn(d1.children, new) # NoNode THEN domRemove(d1, new, FALSE) ELSE d1
         d3 == domInsert(d2, p, new, ref, <<old>>)
     IN /\ children' = d3.children
        /\ transient' = d3.transient
        /\ queue' = d3.queue
  /\ lastOp' = Op("replaceChild", "none", old, <<>>, <<>>)
  /\ lastCalls' = <<>>
  /\ nMut' = nMut + 1
  /\ UNCHANGED <<attrs, props, mgr, registered, nextInst, insts, cfg, nApi>>

AttributeChanged(n, name, newAttrs) ==
  LET interested == {m \in Managers :
                       InterestedIn(children, registered, transient, m, n) /\ Observes(m, name)}
  IN /\ attrs' = newAttrs
     /\ queue' = [m \in Managers |->
                    IF m \in interested
                    THEN Append(queue[m], AttributesRecord(n, name, matchesIn(newAttrs, n, mgr[m].selector)))
                    ELSE queue[m]]
     /\ insts' = [i \in 1..Len(insts) |->
                    IF \E m \in Managers :
                         /\ mgr[m].symbol = insts[i].sym
                         /\ props[n][mgr[m].symbol] = i
                         /\ InterestedIn(children, registered, transient, m, n)
                         /\ matchesIn(newAttrs, n, mgr[m].selector)
                    THEN [insts[i] EXCEPT !.attrChanges = @ + 1]
                    ELSE insts[i]]
     /\ lastCalls' = <<>>
     /\ nMut' = nMut + 1
     /\ UNCHANGED <<children, props, mgr, registered, transient, nextInst, cfg, nApi>>

\* n.setAttribute(name, value), also when the attribute is already present
SetAttribute(n, name) ==
  /\ nMut < MaxMut
  /\ AllRegistered
  /\ lastOp' = Op("setAttribute", "none", n, <<>>, name)
  /\ AttributeChanged(n, name, [attrs EXCEPT ![n] = @ \cup {name}])

\* n.removeAttribute(name) of a present attribute
RemoveAttribute(n, name) ==
  /\ nMut < MaxMut
  /\ AllRegistered
  /\ name \in attrs[n]
  /\ lastOp' = Op("removeAttribute", "none", n, <<>>, name)
  /\ AttributeChanged(n, name, [attrs EXCEPT ![n] = @ \ {name}])

\* ------------------------------------------------------- manager operations
\* The elements whose instance's onChange/onDetach throw during one operation.
BadSets == IF cfg.faulty THEN {{}} \cup {{n} : n \in Nodes} ELSE {{}}

\* The history after the calls cs.
RECURSIVE Record(_, _)
Record(h, cs) ==
  IF cs = <<>> THEN h
  ELSE LET c == Head(cs)
           h1 == CASE c.cb = "constructor" ->
                        Append(h, [el |-> c.el, sym |-> c.sym, changes |-> 0, detaches |-> 0,
                                    attrChanges |-> 0])
                   [] c.cb = "onChange" -> [h EXCEPT ![c.inst].changes = @ + 1]
                   [] c.cb = "onDetach" -> [h EXCEPT ![c.inst].detaches = @ + 1]
       IN Record(h1, Tail(cs))

Commit(st) ==
  /\ props' = st.props
  /\ nextInst' = st.nextInst
  /\ insts' = Record(insts, st.calls)
  /\ lastCalls' = st.calls

\* observe(root): the registration on root is added, or replaced, and then
\* the transient observers it is the source of are dropped.
observe(m, root) ==
  /\ registered' = [registered EXCEPT ![m] = @ \cup {root}]
  /\ transient' = [transient EXCEPT ![m] =
                     IF root \in registered[m]
                     THEN {t \in @ : ~(t.src = root /\ t.direct)}
                     ELSE @]

\* registerDirective(root, selector, directive)
RegisterDirective(m, root, selector) ==
  /\ mgr[m].symbol = 0
  /\ LET dirManager == DirectiveManager(selector, Minted)
     IN /\ mgr' = [mgr EXCEPT ![m] = dirManager]
        /\ Commit(attachTo(Store(props, nextInst), dirManager, root))
  /\ observe(m, root)
  /\ lastOp' = Op("registerDirective", m, root, <<>>, <<>>)
  /\ UNCHANGED <<children, attrs, queue, cfg, nMut, nApi>>

\* manager.observe(root)
Observe(m, root) ==
  /\ AllRegistered
  /\ root \notin registered[m]
  /\ observe(m, root)
  /\ lastOp' = Op("observe", m, root, <<>>, <<>>)
  /\ lastCalls' = <<>>
  /\ UNCHANGED <<children, attrs, props, mgr, queue, nextInst, insts, cfg, nMut, nApi>>

\* manager.attachTo(root)
AttachTo(m, root) ==
  /\ nApi < MaxApi
  /\ AllRegistered
  /\ Commit(attachTo(Store(props, nextInst), mgr[m], root))
  /\ lastOp' = Op("attachTo", m, root, <<>>, <<>>)
  /\ nApi' = nApi + 1
  /\ UNCHANGED <<children, attrs, mgr, registered, transient, queue, cfg, nMut>>

\* manager.detachFrom(root)
DetachFrom(m, root) ==
  /\ nApi < MaxApi
  /\ AllRegistered
  /\ \E bad \in BadSets : Commit(detachFrom(Store(props, nextInst), mgr[m], root, bad))
  /\ lastOp' = Op("detachFrom", m, root, <<>>, <<>>)
  /\ nApi' = nApi + 1
  /\ UNCHANGED <<children, attrs, mgr, registered, transient, queue, cfg, nMut>>

\* Variant of disconnect that runs the detach loop and leaves the observer
\* connected.
DisconnectScanOnly(m, root) ==
  /\ nApi < MaxApi
  /\ AllRegistered
  /\ \E bad \in BadSets :
       Commit(detachAll(Store(props, nextInst), mgr[m].symbol,
                        querySelectorAll(root, mgr[m].selector), bad))
  /\ lastOp' = Op("disconnect", m, root, <<>>, <<>>)
  /\ nApi' = nApi + 1
  /\ UNCHANGED <<children, attrs, mgr, registered, transient, queue, cfg, nMut>>

\* Variant of disconnect that keeps a table of the observed roots and runs
\* the teardown pass on each of them.
DisconnectAllRoots(m, root) ==
  /\ nApi < MaxApi
  /\ AllRegistered
  /\ registered' = [registered EXCEPT ![m] = {}]
  /\ transient' = [transient EXCEPT ![m] = {}]
  /\ queue' = [queue EXCEPT ![m] = <<>>]
  /\ LET roots == SelectSeq(<<"r", "x", "y">>, LAMBDA n : n \in registered[m] \cup {root})
     IN \E bad \in BadSets :
          Commit(detachFromEach(Store(props, nextInst), mgr[m], roots, bad))
  /\ lastOp' = Op("disconnect", m, root, <<>>, <<>>)
  /\ nApi' = nApi + 1
  /\ UNCHANGED <<children, attrs, mgr, cfg, nMut>>

\* manager.disconnect(root): observer.disconnect() drops the registrations,
\* the transient observers and the pending records; then the detach loop.
Disconnect(m, root) ==
  /\ nApi < MaxApi
  /\ AllRegistered
  /\ registered' = [registered EXCEPT ![m] = {}]
  /\ transient' = [transient EXCEPT ![m] = {}]
  /\ queue' = [queue EXCEPT ![m] = <<>>]
  /\ \E bad \in BadSets :
       Commit(detachAll(Store(props, nextInst), mgr[m].symbol,
                        querySelectorAll(root, mgr[m].selector), bad))
  /\ lastOp' = Op("disconnect", m, root, <<>>, <<>>)
  /\ nApi' = nApi + 1
  /\ UNCHANGED <<children, attrs, mgr, cfg, nMut>>

\* The host delivers m's pending records: the queue is emptied, m's
\* transient observers are removed and the observer callback runs.
Deliver(m) ==
  /\ queue[m] # <<>>
  /\ queue' = [queue EXCEPT ![m] = <<>>]
  /\ transient' = [transient EXCEPT ![m] = {}]
  /\ \E bad \in BadSets : Commit(observer(Store(props, nextInst), mgr[m], queue[m], bad))
  /\ lastOp' = Op("deliver", m, NoNode, queue[m], <<>>)
  /\ UNCHANGED <<children, attrs, mgr, registered, cfg, nMut, nApi>>

Next ==
  \/ \E p \in Nodes, n \in cfg.mutable : AppendChild(p, n)
  \/ \E n \in cfg.mutable : RemoveChild(n)
  \/ \E new \in Nodes, old \in cfg.mutable : ReplaceChild(new, old)
  \/ \E n \in AttrNodes \cap cfg.mutable, name \in cfg.attrs : SetAttribute(n, name)
  \/ \E n \in AttrNodes \cap cfg.mutable, name \in cfg.attrs : RemoveAttribute(n, name)
  \/ \E m \in cfg.managers, root \in RegRoots, selector \in cfg.selectors :
       RegisterDirective(m, root, selector)
  \/ \E m \in cfg.managers, root \in ObserveRoots \cap cfg.roots : Observe(m, root)
  \/ \E m \in cfg.managers, root \in AttachRoots \cap cfg.roots : AttachTo(m, root)
  \/ \E m \in cfg.managers, root \in cfg.roots : DetachFrom(m, root)
  \/ \E m \in cfg.managers, root \in DisconnectRoots \cap cfg.roots : Disconnect(m, root)
  \/ \E m \in cfg.managers : Deliver(m)

Spec == Init /\ [][Next]_vars

\* One manager, registered with any of the selectors; the page moves y and
\* sets or removes its attributes.
InitSelectors ==
  /\ cfg = Config({"m1"}, Selectors, FALSE, {"y"}, Attrs, Nodes)
  /\ \E ch \in {Chain, Apart} : Document(ch)

SpecSelectors == InitSelectors /\ [][Next]_vars

\* A directive class whose onChange and onDetach may throw.
InitFaulty ==
  /\ cfg = Config({"m1"}, {SelOpen}, TRUE, {"x", "y"}, {AttrOpen}, Nodes)
  /\ \E ch \in {Chain, Apart} : Document(ch)

SpecFaulty == InitFaulty /\ [][Next]_vars

\* Two managers with the identical selector and directive class; the page
\* moves and changes y only and calls the methods on r.
InitTwo ==
  /\ cfg = Config({"m1", "m2"}, {SelOpen}, FALSE, {"y"}, {AttrOpen}, {"r"})
  /\ Document(Chain)

SpecTwo == InitTwo /\ [][Next]_vars

\* --------------------------------------------- selector strings as inputs
\* Pieces of selector strings: [data-id]  [role=btn]  " > span"  div.card
\* [ a ]  [b|=c]  [a="[b]"]  [a]
PData == <<"[", "d", "a", "t", "a", "-", "i", "d", "]">>
PRole == <<"[", "r", "o", "l", "e", "=", "b", "t", "n", "]">>
PChild == <<" ", ">", " ", "s", "p", "a", "n">>
PCard == <<"d", "i", "v", ".", "c", "a", "r", "d">>
PSpaced == <<"[", " ", "a", " ", "]">>
PDash == <<"[", "b", "|", "=", "c", "]">>
PQuoted == <<"[", "a", "=", "\"", "[", "b", "]", "\"", "]">>
PA == <<"[", "a", "]">>
Pieces == {PData, PRole, PChild, PCard, PSpaced, PDash, PQuoted, PA}

\* The selector strings made of at most n pieces.
RECURSIVE SelectorsOf(_)
SelectorsOf(n) ==
  IF n = 0 THEN {<<>>}
  ELSE LET shorter == SelectorsOf(n - 1)
       IN shorter \cup {s \o p : s \in shorter, p \in Pieces}

ExtractInputs == SelectorsOf(MaxParts)

\* new DirectiveManager(directive, selector), called directly.
Construct(m, selector) ==
  /\ mgr[m].symbol = 0
  /\ mgr' = [mgr EXCEPT ![m] = DirectiveManager(selector, Minted)]
  /\ lastOp' = Op("new", m, NoNode, <<>>, <<>>)
  /\ lastCalls' = <<>>
  /\ UNCHANGED <<children, attrs, props, registered, transient, queue, nextInst,
                 insts, cfg, nMut, nApi>>

InitExtract ==
  /\ cfg = Config({"m1"}, ExtractInputs, FALSE, {}, {}, {})
  /\ Document(Chain)

NextExtract == \E m \in cfg.managers, selector \in cfg.selectors : Construct(m, selector)

SpecExtract == InitExtract /\ [][NextExtract]_vars

\* ================================================================== claims
Sym(m) == mgr[m].symbol

Holds(m, n) == props[n][Sym(m)] # 0

InTree(n) == n \in InclDescendants("r")

\* m was registered on r by registerDirective, nothing but DOM mutations
\* happened since, and every record queued for m has been processed.
Quiescent(m) ==
  /\ Sym(m) # 0
  /\ registered[m] = {"r"}
  /\ nApi = 0
  /\ queue[m] = <<>>

\* The calls of kind cb in cs made for element el.
CallsOn(cs, cb, el) == SelectSeq(cs, LAMBDA c : c.cb = cb /\ c.el = el)

\* The attributes records of a batch whose target is n.
AttrRecordsOn(mutations, n) ==
  SelectSeq(mutations, LAMBDA rec : rec.type = "attributes" /\ rec.target = n)

OnlyAttributes(mutations) ==
  \A i \in 1..Len(mutations) : mutations[i].type = "attributes"

\* This step is the observer callback of m processing its pending records.
DeliverStep(m) ==
  /\ queue[m] # <<>>
  /\ queue'[m] = <<>>
  /\ lastOp' = Op("deliver", m, NoNode, queue[m], <<>>)

\* This step is a call of the method op of m on root.
MethodStep(op, m, root) ==
  /\ nApi' = nApi + 1
  /\ lastOp' = Op(op, m, root, <<>>, <<>>)

\* C1: at quiescence every node that holds an instance of the manager is in
\* the observed root's subtree and matches the manager's selector.
C1_AttachedInTreeAndMatching ==
  \A m \in cfg.managers : Quiescent(m) =>
    \A n \in Nodes : Holds(m, n) => InTree(n) /\ matches(n, mgr[m].selector)

\* C2: at quiescence every element in the root's subtree that matches the
\* selector holds an instance of the manager.
C2_MatchingInTreeAttached ==
  \A m \in cfg.managers : Quiescent(m) =>
    \A n \in Nodes : (InTree(n) /\ matches(n, mgr[m].selector)) => Holds(m, n)

\* C3: with the selector [open], when a batch holding an attribute change of
\* n is processed while n holds an instance and has no open attribute,
\* onDetach is invoked exactly once on that instance and n holds none
\* afterwards; when it is processed while n holds no instance and has the
\* open attribute, the constructor is invoked for n with an instance that
\* never existed before, which n holds afterwards (when the batch holds
\* attribute changes only).
C3_MatchLossDetachesRegainConstructs ==
  [][\A m \in cfg.managers, n \in Nodes :
       (DeliverStep(m) /\ mgr[m].selector = SelOpen /\ AttrRecordsOn(queue[m], n) # <<>>) =>
         /\ (Holds(m, n) /\ AttrOpen \notin attrs[n]) =>
              /\ props'[n][Sym(m)] = 0
              /\ Len(CallsOn(lastCalls', "onDetach", n)) = 1
              /\ CallsOn(lastCalls', "onDetach", n)[1].inst = props[n][Sym(m)]
              /\ insts'[props[n][Sym(m)]].detaches = 1
         /\ (~Holds(m, n) /\ AttrOpen \in attrs[n]) =>
              \E i \in 1..Len(lastCalls') :
                /\ lastCalls'[i].cb = "constructor"
                /\ lastCalls'[i].el = n
                /\ lastCalls'[i].inst >= nextInst
                /\ lastCalls'[i].inst > Len(insts)
                /\ OnlyAttributes(queue[m]) => props'[n][Sym(m)] = lastCalls'[i].inst
    ]_vars

\* C3 witness: a delivery constructed a second instance for a node whose
\* earlier instance had received onDetach (open removed, delivered,
\* re-added, delivered).
C3_Witness ==
  \E n \in Nodes, i \in 1..Len(insts) :
    /\ lastOp.op = "deliver"
    /\ Len(lastOp.mutations) = 1
    /\ lastOp.mutations[1].type = "attributes"
    /\ lastOp.mutations[1].target = n
    /\ CallsOn(lastCalls, "constructor", n) # <<>>
    /\ insts[i].el = n
    /\ insts[i].detaches = 1
    /\ props[n][insts[i].sym] > i

\* A batch in which n lost its match and then regained it: an attributes
\* record after which n did not match, followed by one after which it did.
LossThenRegain(mutations, n) ==
  \E i, j \in 1..Len(mutations) :
    /\ i < j
    /\ mutations[i].type = "attributes" /\ mutations[i].target = n /\ ~mutations[i].matched
    /\ mutations[j].type = "attributes" /\ mutations[j].target = n /\ mutations[j].matched

\* C4 as claimed: when both descriptors of a match loss and regain arrive in
\* one batch, the prior instance receives onDetach and the node ends with a
\* new instance.
C4_LossRegainMintsNew ==
  [][\A m \in cfg.managers, n \in Nodes :
       (DeliverStep(m) /\ Holds(m, n) /\ OnlyAttributes(queue[m]) /\ LossThenRegain(queue[m], n)) =>
         /\ CallsOn(lastCalls', "onDetach", n) # <<>>
         /\ props'[n][Sym(m)] # props[n][Sym(m)]
    ]_vars

\* C4 amended: the reducer tests each descriptor against the node's state at
\* delivery. When n lost and regained its match within one batch of
\* attribute descriptors and matches at delivery, the prior instance stays
\* stored, receives one onChange per descriptor of n, and neither onDetach
\* nor the constructor is invoked for n.
C4_LossRegainKeepsInstance ==
  [][\A m \in cfg.managers, n \in Nodes :
       (/\ DeliverStep(m) /\ Holds(m, n) /\ OnlyAttributes(queue[m])
        /\ LossThenRegain(queue[m], n) /\ matches(n, mgr[m].selector)) =>
         /\ props'[n][Sym(m)] = props[n][Sym(m)]
         /\ CallsOn(lastCalls', "onDetach", n) = <<>>
         /\ CallsOn(lastCalls', "constructor", n) = <<>>
         /\ Len(CallsOn(lastCalls', "onChange", n)) = Len(AttrRecordsOn(queue[m], n))
         /\ \A c \in Range(CallsOn(lastCalls', "onChange", n)) : c.inst = props[n][Sym(m)]
    ]_vars

\* C4 witness: a batch of a loss and a regain was processed and the node's
\* instance received two onChange calls.
C4_Witness ==
  \E n \in Nodes :
    /\ lastOp.op = "deliver"
    /\ Len(lastOp.mutations) = 2
    /\ LossThenRegain(lastOp.mutations, n)
    /\ Len(CallsOn(lastCalls, "onChange", n)) = 2
    /\ Holds(lastOp.m, n)

\* C5: when onDetach fails the node's stored instance is erased all the
\* same, and the descriptors after the failing one are processed: a batch
\* that ends with an attribute change of a node that matches leaves that
\* node with an instance.
C5_FailingCallbackIsolated ==
  /\ \A c \in Range(lastCalls) :
       (c.cb = "onDetach" /\ c.threw) => props[c.el][c.sym] = 0
  /\ (lastOp.op = "deliver" /\ lastOp.mutations # <<>>) =>
       LET last == lastOp.mutations[Len(lastOp.mutations)]
       IN (last.type = "attributes" /\ matches(last.target, mgr[lastOp.m].selector))
            => Holds(lastOp.m, last.target)

\* C6: after disconnect(root) no element of root's tree, root included,
\* holds an instance of the manager, and every instance the manager created
\* has received onDetach exactly once.
C6_DisconnectDetachesAll ==
  \A m \in cfg.managers :
    (lastOp.op = "disconnect" /\ lastOp.m = m) =>
      /\ \A n \in InclDescendants(lastOp.root) : ~Holds(m, n)
      /\ \A i \in 1..Len(insts) : insts[i].sym = Sym(m) => insts[i].detaches = 1

\* C7 as claimed: once everything is delivered, an instance that is stored
\* on its element has received one onChange per attribute change of the
\* element that left it matching.
C7_EveryAttributeChangeNotified ==
  \A m \in cfg.managers : Quiescent(m) =>
    \A i \in 1..Len(insts) :
      (insts[i].sym = Sym(m) /\ props[insts[i].el][Sym(m)] = i) =>
        insts[i].changes = insts[i].attrChanges

\* The attribute names of which observe() asks to be told: the watch-list,
\* or every name when the watch-list is empty.
Watched(m, name) ==
  \/ mgr[m].attrsToObserve = <<>>
  \/ \E k \in 1..Len(mgr[m].attrsToObserve) : mgr[m].attrsToObserve[k] = name

\* This step changes the attribute name of n.
AttributeStep(n, name) ==
  /\ nMut' = nMut + 1
  /\ lastOp'.op \in {"setAttribute", "removeAttribute"}
  /\ lastOp'.root = n
  /\ lastOp'.name = name

\* C7 amended: a change of an attribute of an element of the observed
\* subtree queues one descriptor when the attribute is in the watch-list or
\* the watch-list is empty, and none otherwise; and when a batch of
\* attribute descriptors is processed, every descriptor of an element that
\* holds an instance and matches invokes onChange once on that instance,
\* which stays stored, and no constructor.
C7_WatchedChangeNotifiedOnce ==
  [][\A m \in cfg.managers, n \in Nodes :
       /\ \A name \in Attrs :
            (AttributeStep(n, name) /\ Sym(m) # 0 /\ registered[m] = {"r"} /\ InTree(n)) =>
              queue'[m] = IF Watched(m, name)
                          THEN Append(queue[m], AttributesRecord(n, name, matchesIn(attrs', n, mgr[m].selector)))
                          ELSE queue[m]
       /\ (/\ DeliverStep(m) /\ OnlyAttributes(queue[m])
           /\ Holds(m, n) /\ matches(n, mgr[m].selector)) =>
            /\ props'[n][Sym(m)] = props[n][Sym(m)]
            /\ CallsOn(lastCalls', "constructor", n) = <<>>
            /\ Len(CallsOn(lastCalls', "onChange", n)) = Len(AttrRecordsOn(queue[m], n))
            /\ insts'[props[n][Sym(m)]].changes
                 = insts[props[n][Sym(m)]].changes + Len(AttrRecordsOn(queue[m], n))
    ]_vars

\* C7 witness: with the selector .card, whose watch-list is empty, a change
\* of the open attribute of an attached element was delivered and answered
\* by one onChange.
C7_Witness ==
  \E n \in Nodes :
    /\ lastOp.op = "deliver"
    /\ mgr[lastOp.m].selector = SelCard
    /\ lastOp.mutations = <<AttributesRecord(n, AttrOpen, TRUE)>>
    /\ Len(lastCalls) = 1
    /\ lastCalls[1].cb = "onChange"
    /\ lastCalls[1].inst = props[n][Sym(lastOp.m)]

\* C8: two managers with the identical selector and directive class on the
\* same root have different storage keys; right after both registrations
\* every matching element of the tree holds one instance per manager and
\* the two are distinct; and every attachTo, detachFrom, disconnect and
\* batch of one manager leaves the other's stored instances unchanged and
\* invokes callbacks on its own instances only.
C8_ManagersIsolated ==
  [][\A m \in cfg.managers, o \in cfg.managers :
       m # o =>
       /\ (Sym(m)' # 0 /\ Sym(o)' # 0) =>
            /\ Sym(m)' # Sym(o)'
            /\ lastOp'.op = "registerDirective" =>
                 \A n \in Nodes :
                   (n \in InclDescendants(lastOp'.root) /\ matches(n, mgr'[m].selector)) =>
                     /\ props'[n][Sym(m)'] # 0
                     /\ props'[n][Sym(o)'] # 0
                     /\ props'[n][Sym(m)'] # props'[n][Sym(o)']
                     /\ insts'[props'[n][Sym(m)']].sym = Sym(m)'
                     /\ insts'[props'[n][Sym(o)']].sym = Sym(o)'
       /\ (/\ Sym(o) # 0
           /\ \/ DeliverStep(m)
              \/ \E op \in {"attachTo", "detachFrom", "disconnect"}, root \in Nodes :
                   MethodStep(op, m, root)) =>
            /\ \A n \in Nodes : props'[n][Sym(o)] = props[n][Sym(o)]
            /\ \A c \in Range(lastCalls') :
                 /\ c.sym = Sym(m)
                 /\ c.sym # Sym(o)
                 /\ insts'[c.inst].sym = Sym(m)
    ]_vars

\* C8 witness: one manager's teardown of r invoked onDetach while the other
\* manager's instances, one on each element, stayed stored.
C8_Witness ==
  /\ lastOp.op = "detachFrom"
  /\ lastOp.m = "m1"
  /\ lastOp.root = "r"
  /\ Len(lastCalls) = 3
  /\ \A n \in Nodes : ~Holds("m1", n) /\ Holds("m2", n)
  /\ \A i \in 1..Len(insts) : insts[i].sym = Sym("m2") => insts[i].detaches = 0

\* The teardown passes of a step: a call detachFrom(root), or a batch of the
\* one record that root was removed from its parent.
TeardownStep(m, root) ==
  \/ MethodStep("detachFrom", m, root)
  \/ /\ DeliverStep(m)
     /\ Len(queue[m]) = 1
     /\ queue[m][1].type = "childList"
     /\ queue[m][1].addedNodes = <<>>
     /\ queue[m][1].removedNodes = <<root>>

\* C9: when root matches and holds an instance, detachFrom(root) invokes
\* onDetach once for every matching attached descendant of root, then once
\* for root, last; afterwards none of them holds an instance.
C9_DescendantsBeforeRoot ==
  [][\A m \in cfg.managers, root \in Nodes :
       (TeardownStep(m, root) /\ matches(root, mgr[m].selector) /\ Holds(m, root)) =>
         LET below == {d \in Descendants(root) : matches(d, mgr[m].selector) /\ Holds(m, d)}
             calls == lastCalls'
         IN /\ Len(calls) = Cardinality(below) + 1
            /\ \A i \in 1..Len(calls) : calls[i].cb = "onDetach"
            /\ calls[Len(calls)].el = root
            /\ \A d \in below :
                 \E i \in 1..(Len(calls) - 1) :
                   /\ calls[i].el = d
                   /\ calls[i].inst = props[d][Sym(m)]
                   /\ \A j \in 1..Len(calls) : calls[j].el = d => j = i
            /\ calls[Len(calls)].inst = props[root][Sym(m)]
            /\ \A d \in below \cup {root} : props'[d][Sym(m)] = 0
    ]_vars

\* C9 witness: the removal of x, with y nested in it, was processed:
\* onDetach for y, then for x.
C9_Witness ==
  /\ lastOp.op = "deliver"
  /\ Len(lastOp.mutations) = 1
  /\ lastOp.mutations[1].removedNodes = <<"x">>
  /\ "y" \in Descendants("x")
  /\ Len(lastCalls) = 2
  /\ lastCalls[1].cb = "onDetach" /\ lastCalls[1].el = "y"
  /\ lastCalls[2].cb = "onDetach" /\ lastCalls[2].el = "x"
  /\ \A n \in {"x", "y"} : ~Holds(lastOp.m, n)

\* C10: attachTo(root) constructs only for matching elements of root's tree
\* that hold no instance, once each, and leaves every matching element of
\* the tree with an instance; called right after an attachTo of the same
\* tree or an enclosing one (registerDirective makes that call), it invokes
\* no constructor, changes no stored instance, and every matching element
\* has the one live instance it had.
C10_AttachToIdempotent ==
  [][\A m \in cfg.managers, root \in Nodes :
       MethodStep("attachTo", m, root) =>
         LET scan == {n \in InclDescendants(root) : matches(n, mgr[m].selector)}
             live(h, n) == {i \in 1..Len(h) : h[i].el = n /\ h[i].sym = Sym(m) /\ h[i].detaches = 0}
         IN /\ \A i \in 1..Len(lastCalls') :
                 /\ lastCalls'[i].cb = "constructor"
                 /\ lastCalls'[i].el \in scan
                 /\ ~Holds(m, lastCalls'[i].el)
                 /\ \A j \in 1..Len(lastCalls') : lastCalls'[j].el = lastCalls'[i].el => j = i
            /\ \A n \in scan :
                 /\ props'[n][Sym(m)] # 0
                 /\ Holds(m, n) => props'[n][Sym(m)] = props[n][Sym(m)]
            /\ (/\ lastOp.op \in {"attachTo", "registerDirective"}
                /\ lastOp.m = m
                /\ root \in InclDescendants(lastOp.root)) =>
                 /\ lastCalls' = <<>>
                 /\ props' = props
                 /\ insts' = insts
                 /\ \A n \in scan : live(insts', n) = {props[n][Sym(m)]}
    ]_vars

\* C10 witness: attachTo(x) right after registerDirective(r, ...), whose
\* scan returned x: no call was made and x holds the instance it had.
C10_Witness ==
  /\ lastOp.op = "attachTo"
  /\ lastOp.root = "x"
  /\ nMut = 0
  /\ InTree("x")
  /\ matches("x", mgr[lastOp.m].selector)
  /\ lastCalls = <<>>
  /\ Holds(lastOp.m, "x")
  /\ insts[props["x"][Sym(lastOp.m)]].el = "x"
  /\ Len(insts) = Cardinality({n \in Nodes : Holds(lastOp.m, n)})

\* C11: detachFrom(root) invokes onDetach only on instances that are stored
\* and never received it, once each, so no instance ever receives onDetach
\* twice; a call on a subtree in which no element holds an instance, such as
\* the subtree a teardown pass has just left, invokes no callback and
\* changes no state of the manager.
C11_DetachFromIdempotent ==
  [][\A m \in cfg.managers, root \in Nodes :
       MethodStep("detachFrom", m, root) =>
         /\ \A k \in 1..Len(lastCalls') :
              /\ lastCalls'[k].cb = "onDetach"
              /\ lastCalls'[k].inst = props[lastCalls'[k].el][Sym(m)]
              /\ insts[lastCalls'[k].inst].detaches = 0
              /\ \A j \in 1..Len(lastCalls') : lastCalls'[j].inst = lastCalls'[k].inst => j = k
         /\ \A i \in 1..Len(insts') : insts'[i].detaches <= 1
         /\ \A n \in InclDescendants(root) : matches(n, mgr[m].selector) => props'[n][Sym(m)] = 0
         /\ (\A n \in InclDescendants(root) : ~Holds(m, n)) =>
              /\ lastCalls' = <<>>
              /\ props' = props
              /\ insts' = insts
              /\ nextInst' = nextInst
              /\ UNCHANGED <<registered, transient, queue, mgr>>
    ]_vars

\* C11 witness: detachFrom(x) after the removal of x was processed (which ran
\* detachFrom(x)): the instance of x has its one onDetach and the call made
\* none.
C11_Witness ==
  /\ lastOp.op = "detachFrom"
  /\ lastOp.root = "x"
  /\ lastCalls = <<>>
  /\ matches("x", mgr[lastOp.m].selector)
  /\ ~Holds(lastOp.m, "x")
  /\ \E i \in 1..Len(insts) : insts[i].el = "x" /\ insts[i].detaches = 1

\* C12: when registerDirective(root, selector, D) returns, every element of
\* root's subtree (root included) that matches the selector holds one
\* instance, made by the one constructor call of the step for it; no other
\* element holds an instance of the manager; and the pass ran before the
\* subscription: the manager observed nothing when the step began, observes
\* root when it ends and has no record pending.
C12_RegisterAttachesThenObserves ==
  [][\A m \in cfg.managers, root \in Nodes :
       (mgr[m].symbol = 0 /\ lastOp' = Op("registerDirective", m, root, <<>>, <<>>)) =>
         LET s == mgr'[m].symbol
             made(n) == {k \in 1..Len(lastCalls') : lastCalls'[k].el = n}
         IN /\ s # 0
            /\ \A n \in Nodes :
                 IF n \in InclDescendants(root) /\ matches(n, mgr'[m].selector)
                 THEN /\ props'[n][s] # 0
                      /\ Cardinality(made(n)) = 1
                      /\ \A k \in made(n) :
                           /\ lastCalls'[k].cb = "constructor"
                           /\ lastCalls'[k].sym = s
                           /\ lastCalls'[k].inst = props'[n][s]
                      /\ Cardinality({i \in 1..Len(insts') : insts'[i].el = n /\ insts'[i].sym = s}) = 1
                 ELSE /\ props'[n][s] = 0
                      /\ made(n) = {}
            /\ registered[m] = {}
            /\ queue[m] = <<>>
            /\ registered'[m] = {root}
            /\ queue'[m] = <<>>
    ]_vars

\* C12 witness: registerDirective(r, ".card", D) on r > x > y, where r and x
\* carry the class and y does not: two constructor calls, y left without an
\* instance.
C12_Witness ==
  /\ lastOp.op = "registerDirective"
  /\ lastOp.root = "r"
  /\ mgr[lastOp.m].selector = SelCard
  /\ InTree("y")
  /\ Len(lastCalls) = 2
  /\ Holds(lastOp.m, "r") /\ Holds(lastOp.m, "x") /\ ~Holds(lastOp.m, "y")
  /\ registered[lastOp.m] = {"r"}

\* The attribute names of the bracketed attribute predicates of s, in order
\* of first occurrence and without duplicates: a predicate runs from its "["
\* to the next "]" outside a quoted value, and only the name that opens it
\* counts. quote is the quote character of the value being read, or "".
RECURSIVE PredicateNames(_, _, _, _, _)
PredicateNames(s, i, inside, quote, acc) ==
  IF i > Len(s) THEN acc
  ELSE IF quote # "" THEN PredicateNames(s, i + 1, inside, IF s[i] = quote THEN "" ELSE quote, acc)
  ELSE IF inside
       THEN IF s[i] = "]" THEN PredicateNames(s, i + 1, FALSE, "", acc)
            ELSE IF s[i] \in {"\"", "'"} THEN PredicateNames(s, i + 1, TRUE, s[i], acc)
            ELSE PredicateNames(s, i + 1, TRUE, "", acc)
  ELSE IF s[i] # "[" THEN PredicateNames(s, i + 1, FALSE, "", acc)
  ELSE LET j == SkipWhile(s, i + 1, Whitespace)
           k == SkipWhile(s, j, NameChar)
           name == SubSeq(s, j, k - 1)
       IN PredicateNames(s, k, TRUE, "",
                         IF name = <<>> \/ name \in Range(acc) THEN acc ELSE Append(acc, name))

\* C13: the watch-list a manager extracts from its selector is the list of
\* the attribute names of the selector's bracketed predicates, without
\* duplicates, in order of first occurrence; text inside a predicate's value
\* contributes no name.
C13_ExtractsPredicateNames ==
  \A m \in cfg.managers :
    mgr[m].symbol # 0 =>
      mgr[m].attrsToObserve = PredicateNames(mgr[m].selector, 1, FALSE, "", <<>>)

\* n is in a tree the manager observes.
Observed(m, n) == \E root \in registered[m] : n \in InclDescendants(root)

\* The batch holds no childList record with an added node, so that every
\* constructor call of its processing comes from an attributes record.
NothingAdded(mutations) ==
  \A k \in 1..Len(mutations) : mutations[k].addedNodes = <<>>

\* C14: processing an attributes record whose target is outside the
\* observed tree when the batch is processed constructs no instance on the
\* target.
C14_NoConstructOutsideTree ==
  [][\A m \in cfg.managers, n \in Nodes :
       (/\ DeliverStep(m)
        /\ NothingAdded(queue[m])
        /\ AttrRecordsOn(queue[m], n) # <<>>
        /\ ~Observed(m, n)) =>
         CallsOn(lastCalls', "constructor", n) = <<>>
    ]_vars

\* This step is a DOM mutation made by the page.
MutationStep == nMut' = nMut + 1

\* C15: when disconnect(root) returns the manager observes nothing and the
\* records that were pending are gone; the calls the step made are the
\* onDetach calls of its teardown scan, none for a pending record; and
\* while the manager observes nothing, no mutation queues a record for it or
\* makes it call a directive, so that no batch is processed until observe
\* is called.
C15_NothingProcessedAfterDisconnect ==
  [][\A m \in cfg.managers :
       /\ (\E root \in Nodes : MethodStep("disconnect", m, root)) =>
            /\ registered'[m] = {}
            /\ transient'[m] = {}
            /\ queue'[m] = <<>>
            /\ \A k \in 1..Len(lastCalls') :
                 /\ lastCalls'[k].cb = "onDetach"
                 /\ lastCalls'[k].el \in Descendants(lastOp'.root)
                 /\ matches(lastCalls'[k].el, mgr[m].selector)
       /\ (Sym(m) # 0 /\ lastOp.op = "disconnect" /\ lastOp.m = m) =>
            (registered[m] = {} /\ queue[m] = <<>> /\ ~DeliverStep(m))
       /\ (Sym(m) # 0 /\ registered[m] = {} /\ transient[m] = {} /\ MutationStep) =>
            /\ queue'[m] = <<>>
            /\ lastCalls' = <<>>
            /\ \A n \in Nodes : props'[n][Sym(m)] = props[n][Sym(m)]
            /\ insts' = insts
    ]_vars

\* C15 witness: y lost its open attribute, disconnect(r) dropped the pending
\* record, and a later mutation of y was made: y still holds the instance
\* it had, which received no call.
C15_Witness ==
  /\ lastOp.op \in {"appendChild", "removeChild"}
  /\ lastOp.root = "y"
  /\ AttrOpen \notin attrs["y"]
  /\ nMut = 2
  /\ nApi = 1
  /\ registered["m1"] = {}
  /\ queue["m1"] = <<>>
  /\ Holds("m1", "y")
  /\ insts[props["y"][Sym("m1")]].changes = 0
  /\ insts[props["y"][Sym("m1")]].detaches = 0

\* What the reducer does for one descriptor, applied to the store st: for a
\* childList descriptor the initial pass on every added node, then the
\* teardown pass on every removed node; for an attributes descriptor on a
\* matching target the constructor if the slot is empty and onChange on the
\* stored instance otherwise, on any other target onDetach and erasure of
\* the stored instance, if any.
AfterDescriptor(st, m, rec) ==
  LET el == rec.target
      stored == st.props[el][m.symbol]
  IN IF rec.type = "childList"
     THEN detachFromEach(attachToEach(st, m, rec.addedNodes), m, rec.removedNodes, {})
     ELSE IF matches(el, m.selector)
          THEN IF stored = 0
               THEN [st EXCEPT !.props[el][m.symbol] = st.nextInst,
                               !.nextInst = st.nextInst + 1,
                               !.calls = Append(st.calls, Call("constructor", m.symbol, el, st.nextInst, FALSE))]
               ELSE [st EXCEPT !.calls = Append(st.calls, Call("onChange", m.symbol, el, stored, FALSE))]
          ELSE IF stored = 0 THEN st
               ELSE [st EXCEPT !.props[el][m.symbol] = 0,
                               !.calls = Append(st.calls, Call("onDetach", m.symbol, el, stored, FALSE))]

\* The descriptors of a batch applied one after the other, each to the store
\* its predecessor left.
RECURSIVE InDeliveryOrder(_, _, _)
InDeliveryOrder(st, m, mutations) ==
  IF mutations = <<>> THEN st
  ELSE InDeliveryOrder(AfterDescriptor(st, m, Head(mutations)), m, Tail(mutations))

\* C16: records reach the reducer in the order the mutations were made (a
\* mutation appends its records to the pending ones), and the calls a batch
\* makes are the calls of its descriptors, one descriptor after the other
\* in delivery order, each applied to the state its predecessors left;
\* nothing is skipped, merged or reordered.
C16_DescriptorsInDeliveryOrder ==
  [][\A m \in cfg.managers :
       /\ (MutationStep /\ Sym(m) # 0) =>
            /\ Len(queue'[m]) >= Len(queue[m])
            /\ SubSeq(queue'[m], 1, Len(queue[m])) = queue[m]
       /\ DeliverStep(m) =>
            LET expected == InDeliveryOrder(Store(props, nextInst), mgr[m], queue[m])
            IN /\ lastCalls' = expected.calls
               /\ props' = expected.props
               /\ nextInst' = expected.nextInst
    ]_vars

\* C16 witness: a batch of two descriptors, x replaced by y and then an
\* attribute change: the constructor for the added node, onDetach for the
\* removed one, then the call of the attributes descriptor.
C16_Witness ==
  /\ lastOp.op = "deliver"
  /\ Len(lastOp.mutations) = 2
  /\ lastOp.mutations[1].addedNodes # <<>>
  /\ lastOp.mutations[1].removedNodes # <<>>
  /\ lastOp.mutations[2].type = "attributes"
  /\ Len(lastCalls) = 3
  /\ lastCalls[1].cb = "constructor" /\ lastCalls[1].el = lastOp.mutations[1].addedNodes[1]
  /\ lastCalls[2].cb = "onDetach" /\ lastCalls[2].el = lastOp.mutations[1].removedNodes[1]
  /\ lastCalls[3].el = lastOp.mutations[2].target

\* r1 and r2 are roots of disjoint trees.
Disjoint(r1, r2) ==
  /\ r1 \notin InclDescendants(r2)
  /\ r2 \notin InclDescendants(r1)

\* C17: when the manager observes the disjoint roots r1 and r2,
\* disconnect(r1) ends the observation of both and drops the pending
\* records; its onDetach calls are for instances stored on elements under
\* r1; every element of r2's tree keeps the instance it holds, which
\* receives no call; and afterwards no mutation under r2 queues a record or
\* makes the manager call a directive.
C17_DisconnectOneOfTwoRoots ==
  [][\A m \in cfg.managers, r1 \in Nodes, r2 \in Nodes :
       /\ (/\ MethodStep("disconnect", m, r1)
           /\ {r1, r2} \subseteq registered[m]
           /\ Disjoint(r1, r2)) =>
            /\ registered'[m] = {}
            /\ transient'[m] = {}
            /\ queue'[m] = <<>>
            /\ \A k \in 1..Len(lastCalls') :
                 /\ lastCalls'[k].cb = "onDetach"
                 /\ lastCalls'[k].el \in Descendants(r1)
                 /\ lastCalls'[k].inst = props[lastCalls'[k].el][Sym(m)]
            /\ \A n \in Descendants(r1) : matches(n, mgr[m].selector) => props'[n][Sym(m)] = 0
            /\ \A n \in InclDescendants(r2) :
                 /\ props'[n][Sym(m)] = props[n][Sym(m)]
                 /\ Holds(m, n) => insts'[props[n][Sym(m)]] = insts[props[n][Sym(m)]]
       /\ (/\ lastOp.op = "disconnect" /\ lastOp.m = m /\ lastOp.root = r1
           /\ Disjoint(r1, r2)
           /\ MutationStep
           /\ lastOp'.root \in InclDescendants(r2)) =>
            /\ queue'[m] = <<>>
            /\ lastCalls' = <<>>
            /\ props' = props
            /\ Len(insts') = Len(insts)
            /\ \A i \in 1..Len(insts) :
                 insts'[i].changes = insts[i].changes /\ insts'[i].detaches = insts[i].detaches
    ]_vars

\* C17 witness: m observed r and the separate y; y got its instance from a
\* delivered attribute change; disconnect(r) detached x and left y's
\* instance stored, and a later attribute change of y made no call.
C17_Witness ==
  /\ lastOp.op \in {"setAttribute", "removeAttribute"}
  /\ lastOp.root = "y"
  /\ Parent("y") = NoNode
  /\ nApi = 1
  /\ nMut = 2
  /\ registered["m1"] = {}
  /\ queue["m1"] = <<>>
  /\ lastCalls = <<>>
  /\ Holds("m1", "y")
  /\ insts[props["y"][Sym("m1")]].detaches = 0
  /\ ~Holds("m1", "x")
  /\ \E i \in 1..Len(insts) : insts[i].el = "x" /\ insts[i].detaches = 1

\* The instances constructed for node n under the key sym.
InstancesOf(n, sym) == {i \in 1..Len(insts) : insts[i].el = n /\ insts[i].sym = sym}

\* The number of detach steps (onDetach calls) made on the instances in is.
RECURSIVE DetachSteps(_)
DetachSteps(is) ==
  IF is = {} THEN 0
  ELSE LET i == CHOOSE j \in is : TRUE
       IN insts[i].detaches + DetachSteps(is \ {i})

\* C18: for every manager and node, the constructor calls made for the node
\* minus the detach steps made on it is 0 or 1, and it is 1 exactly when
\* getDir(node) returns an instance; the stored instance is one constructed
\* for that node by that manager and not detached, and no instance is
\* stored anywhere but on the node it was constructed for.
C18_AtMostOneInstancePerNode ==
  /\ \A m \in cfg.managers, n \in Nodes :
       Sym(m) # 0 =>
         LET balance == Cardinality(InstancesOf(n, Sym(m))) - DetachSteps(InstancesOf(n, Sym(m)))
         IN /\ balance \in {0, 1}
            /\ (balance = 1) = (getDir(m, n) # 0)
            /\ getDir(m, n) # 0 =>
                 /\ getDir(m, n) \in InstancesOf(n, Sym(m))
                 /\ insts[getDir(m, n)].detaches = 0
  /\ \A n \in Nodes, s \in Symbols :
       props[n][s] # 0 =>
         /\ props[n][s] \in 1..Len(insts)
         /\ insts[props[n][s]].el = n
         /\ insts[props[n][s]].sym = s

\* C18 witness: a node for which the constructor ran twice and one detach
\* step was made holds its second instance.
C18_Witness ==
  \E n \in Nodes :
    /\ Cardinality(InstancesOf(n, Sym("m1"))) = 2
    /\ DetachSteps(InstancesOf(n, Sym("m1"))) = 1
    /\ getDir("m1", n) # 0
    /\ insts[getDir("m1", n)].changes = 0

\* The instance stored on el under sym just before call k of calls, given
\* the slots props at the start of the step: what the latest earlier
\* constructor or onDetach call for that slot left, or the slot's value at
\* the start.
RECURSIVE StoredBefore(_, _, _, _, _)
StoredBefore(p, calls, k, el, sym) ==
  IF k = 1 THEN p[el][sym]
  ELSE LET c == calls[k - 1]
       IN IF c.el = el /\ c.sym = sym /\ c.cb = "constructor" THEN c.inst
          ELSE IF c.el = el /\ c.sym = sym /\ c.cb = "onDetach" THEN 0
          ELSE StoredBefore(p, calls, k - 1, el, sym)

\* C19: in every step, a constructor call makes an instance that did not
\* exist and no other call of the step makes it again; an onChange or
\* onDetach call is made on the instance stored at that moment on the
\* element the call is for, an instance that has not received onDetach,
\* neither before the step nor earlier in it. So each instance receives the
\* constructor once, then onChange calls, then at most one onDetach, and
\* nothing after it.
C19_InstanceLifecycle ==
  [][/\ \A k \in 1..Len(lastCalls') :
          LET c == lastCalls'[k]
              stored == StoredBefore(props, lastCalls', k, c.el, c.sym)
          IN IF c.cb = "constructor"
             THEN /\ c.inst > Len(insts)
                  /\ stored = 0
                  /\ \A j \in 1..Len(lastCalls') :
                       (lastCalls'[j].cb = "constructor" /\ lastCalls'[j].inst = c.inst) => j = k
                  /\ \A j \in 1..(k - 1) : lastCalls'[j].inst # c.inst
             ELSE /\ c.cb \in {"onChange", "onDetach"}
                  /\ c.inst = stored
                  /\ c.inst # 0
                  /\ c.inst <= Len(insts) => insts[c.inst].detaches = 0
                  /\ \A j \in 1..(k - 1) :
                       lastCalls'[j].inst = c.inst => lastCalls'[j].cb # "onDetach"
     /\ \A i \in 1..Len(insts') : insts'[i].detaches <= 1
     /\ \A i \in 1..Len(insts) :
          /\ insts'[i].el = insts[i].el
          /\ insts'[i].detaches >= insts[i].detaches
          /\ insts[i].detaches = 1 => insts'[i].changes = insts[i].changes
    ]_vars

\* C19 witness: an instance that received the constructor, then onChange,
\* then onDetach, the last in a step of the observer callback.
C19_Witness ==
  \E i \in 1..Len(insts) :
    /\ insts[i].changes = 1
    /\ insts[i].detaches = 1
    /\ lastOp.op = "deliver"
    /\ \E k \in 1..Len(lastCalls) : lastCalls[k].cb = "onDetach" /\ lastCalls[k].inst = i
    /\ \A n \in Nodes, s \in Symbols : props[n][s] # i

\* The position of the onDetach call for element el in calls, 0 if none.
DetachIndex(calls, el) ==
  IF \E k \in 1..Len(calls) : calls[k].cb = "onDetach" /\ calls[k].el = el
  THEN CHOOSE k \in 1..Len(calls) : calls[k].cb = "onDetach" /\ calls[k].el = el
  ELSE 0

\* C20: in one detachFrom(root), the matching attached descendants of root
\* receive onDetach in document order, so of two nested ones the ancestor
\* comes before its descendant; root, when it matches, comes after all of
\* them.
C20_DescendantsInDocumentOrder ==
  [][\A m \in cfg.managers, root \in Nodes :
       TeardownStep(m, root) =>
         LET held == SelectSeq(Tail(DocOrder(root)),
                               LAMBDA e : matches(e, mgr[m].selector) /\ Holds(m, e))
             calls == lastCalls'
         IN /\ \A k \in 1..Len(held) :
                 /\ calls[k].cb = "onDetach"
                 /\ calls[k].el = held[k]
                 /\ calls[k].inst = props[held[k]][Sym(m)]
            /\ \A a \in Range(held), d \in Range(held) :
                 (a # d /\ a \in InclAncestors(d)) =>
                   DetachIndex(calls, a) < DetachIndex(calls, d)
            /\ (matches(root, mgr[m].selector) /\ Holds(m, root)) =>
                 /\ Len(calls) = Len(held) + 1
                 /\ DetachIndex(calls, root) = Len(calls)
            /\ ~(matches(root, mgr[m].selector) /\ Holds(m, root)) => Len(calls) = Len(held)
    ]_vars

\* C20 witness: detachFrom(r) on r > x > y, all attached: onDetach for x,
\* then for y nested in it, then for r.
C20_Witness ==
  /\ lastOp.op = "detachFrom"
  /\ lastOp.root = "r"
  /\ "y" \in Descendants("x")
  /\ "x" \in Descendants("r")
  /\ Len(lastCalls) = 3
  /\ lastCalls[1].el = "x" /\ lastCalls[2].el = "y" /\ lastCalls[3].el = "r"
  /\ \A k \in 1..3 : lastCalls[k].cb = "onDetach"

====
